---- MODULE Spec2Model ----
(***************************************************************************)
(* Model of the road-tax calculator component App (src/src/App.tsx).       *)
(*                                                                         *)
(* The component's React state is the model's state; every event handler   *)
(* is one action; the useMemo values (savings, graphData,                  *)
(* vehicleComparisonData, efficiencyComparisonData) are functions of the   *)
(* state and are modelled as operators over it.                            *)
(*                                                                         *)
(* Numbers.  A form field holds '' or a number.  The model writes a field  *)
(* as <<>> ('') or <<h>>, h the number in hundredths (6.5 is <<650>>).     *)
(* Products and sums are computed exactly, as decimals with an arbitrary   *)
(* number of digits (the records built by Mk below), so that the values    *)
(* at the validation limits (up to 10^11) are representable.  The code     *)
(* computes them in IEEE doubles; the model does not represent the         *)
(* rounding error of a double.                                             *)
(***************************************************************************)
EXTENDS Integers, Sequences, FiniteSets, TLC

VARIABLES vehicleType, distance, efficiency, currentFuelPrice, pastFuelPrice,
          errors, isGraphExpanded, isVehicleComparisonExpanded,
          isEfficiencyComparisonExpanded, computedBreakdown, lastOp, events

vars == <<vehicleType, distance, efficiency, currentFuelPrice, pastFuelPrice,
          errors, isGraphExpanded, isVehicleComparisonExpanded,
          isEfficiencyComparisonExpanded, computedBreakdown, lastOp, events>>

inputs == <<vehicleType, distance, efficiency, currentFuelPrice, pastFuelPrice>>

expanded == <<isGraphExpanded, isVehicleComparisonExpanded,
              isEfficiencyComparisonExpanded>>

-----------------------------------------------------------------------------
(* Exact decimal arithmetic: the JavaScript number operators *, /, +, -.   *)

\* A magnitude is a little-endian sequence of limbs in 0 .. Base-1 with no
\* leading (high) zero limb; <<>> is 0.
Base == 10000

Abs(i) == IF i < 0 THEN -i ELSE i

RECURSIVE Limbs(_)
Limbs(n) == IF n = 0 THEN <<>> ELSE <<n % Base>> \o Limbs(n \div Base)

RECURSIVE StripHigh(_)
StripHigh(s) ==
    IF s # <<>> /\ s[Len(s)] = 0 THEN StripHigh(SubSeq(s, 1, Len(s) - 1)) ELSE s

RestOf(s) == IF s = <<>> THEN <<>> ELSE Tail(s)

LowOf(s) == IF s = <<>> THEN 0 ELSE Head(s)

RECURSIVE AddLimbs(_, _, _)
AddLimbs(a, b, c) ==
    IF a = <<>> /\ b = <<>>
    THEN IF c = 0 THEN <<>> ELSE <<c>>
    ELSE LET x == LowOf(a) + LowOf(b) + c
         IN  <<x % Base>> \o AddLimbs(RestOf(a), RestOf(b), x \div Base)

\* a - b - c for magnitudes with a >= b + c
RECURSIVE SubLimbs(_, _, _)
SubLimbs(a, b, c) ==
    IF a = <<>>
    THEN <<>>
    ELSE LET x == Head(a) - LowOf(b) - c
         IN  <<IF x < 0 THEN x + Base ELSE x>>
                 \o SubLimbs(Tail(a), RestOf(b), IF x < 0 THEN 1 ELSE 0)

RECURSIVE MulSmall(_, _, _)
MulSmall(a, m, c) ==
    IF a = <<>>
    THEN IF c = 0 THEN <<>> ELSE <<c>>
    ELSE LET x == Head(a) * m + c
         IN  <<x % Base>> \o MulSmall(Tail(a), m, x \div Base)

ShiftUp(s) == IF s = <<>> THEN <<>> ELSE <<0>> \o s

RECURSIVE MulLimbs(_, _)
MulLimbs(a, b) ==
    IF a = <<>> \/ b = <<>>
    THEN <<>>
    ELSE StripHigh(AddLimbs(MulSmall(a, Head(b), 0),
                            ShiftUp(MulLimbs(a, Tail(b))), 0))

\* -1, 0 or 1 as a < b, a = b or a > b
RECURSIVE CmpLimbs(_, _)
CmpLimbs(a, b) ==
    IF Len(a) # Len(b) THEN (IF Len(a) < Len(b) THEN -1 ELSE 1)
    ELSE IF a = <<>> THEN 0
    ELSE IF a[Len(a)] # b[Len(b)] THEN (IF a[Len(a)] < b[Len(b)] THEN -1 ELSE 1)
    ELSE CmpLimbs(SubSeq(a, 1, Len(a) - 1), SubSeq(b, 1, Len(b) - 1))

\* A number is [neg, mag, exp]: (-1)^neg * mag / Base^exp, kept canonical by
\* Mk (no low zero limb while exp > 0; zero is positive with exp 0), so two
\* numbers are equal exactly when their records are.
RECURSIVE Mk(_, _, _)
Mk(neg, mag, exp) ==
    IF mag = <<>> THEN [neg |-> FALSE, mag |-> <<>>, exp |-> 0]
    ELSE IF exp > 0 /\ Head(mag) = 0 THEN Mk(neg, Tail(mag), exp - 1)
    ELSE [neg |-> neg, mag |-> mag, exp |-> exp]

Zero == Mk(FALSE, <<>>, 0)

\* the integer i
FromInt(i) == Mk(i < 0, Limbs(Abs(i)), 0)

\* the number h / 100
FromHundredths(h) == Mk(h < 0, MulSmall(Limbs(Abs(h)), 100, 0), 1)

RECURSIVE Raise(_, _)
Raise(mag, k) == IF k = 0 \/ mag = <<>> THEN mag ELSE Raise(<<0>> \o mag, k - 1)

Max2(i, j) == IF i >= j THEN i ELSE j

RNeg(a) == Mk(~a.neg, a.mag, a.exp)

RMul(a, b) == Mk(a.neg # b.neg, MulLimbs(a.mag, b.mag), a.exp + b.exp)

RDiv100(a) == Mk(a.neg, MulSmall(a.mag, 100, 0), a.exp + 1)

RAdd(a, b) ==
    LET e == Max2(a.exp, b.exp)
        x == Raise(a.mag, e - a.exp)
        y == Raise(b.mag, e - b.exp)
    IN  IF a.neg = b.neg THEN Mk(a.neg, AddLimbs(x, y, 0), e)
        ELSE IF CmpLimbs(x, y) >= 0 THEN Mk(a.neg, StripHigh(SubLimbs(x, y, 0)), e)
        ELSE Mk(b.neg, StripHigh(SubLimbs(y, x, 0)), e)

RSub(a, b) == RAdd(a, RNeg(b))

\* a >= b
RGe(a, b) == ~RSub(a, b).neg

RMax(a, b) == IF RGe(a, b) THEN a ELSE b

\* Math.round: the integer nearest to a, a half rounding towards +infinity
RFloor(a) ==
    IF a.exp = 0 THEN a
    ELSE LET whole == IF Len(a.mag) > a.exp
                      THEN SubSeq(a.mag, a.exp + 1, Len(a.mag)) ELSE <<>>
         IN  IF a.neg THEN Mk(TRUE, AddLimbs(whole, <<1>>, 0), 0)
             ELSE Mk(FALSE, whole, 0)

MathRound(a) == RFloor(RAdd(a, Mk(FALSE, <<5000>>, 1)))

-----------------------------------------------------------------------------
(* Form fields                                                             *)

\* A number input's onChange stores '' for an empty or unparsable text and
\* Number(text) otherwise, so a field never holds NaN.
Unset == <<>>

Num(h) == <<h>>

\* n + f/100 in hundredths
Dec(n, f) == n * 100 + f

\* Number(field) of a field that holds a number
NumberOf(field) == FromHundredths(field[1])

\* !field: '' and 0 are falsy
Falsy(field) == field = Unset \/ field[1] = 0

VehicleType == {"Petrol/Diesel", "Electric"}

defaultEfficiency(vt) == IF vt = "Electric" THEN Num(Dec(18, 0)) ELSE Num(Dec(6, 50))

defaultCurrentPrice(vt) == IF vt = "Electric" THEN Num(Dec(25, 70)) ELSE Num(Dec(185, 0))

defaultPastPrice(vt) == IF vt = "Electric" THEN Num(Dec(25, 70)) ELSE Num(Dec(300, 0))

\* Faulty variant of roadTaxPerKm: two digits transposed.
roadTaxPerKmTransposed == FromHundredths(Dec(6, 59))

roadTaxPerKm == FromHundredths(Dec(6, 95))

-----------------------------------------------------------------------------
(* validateInputs                                                          *)

priceLabel(vt) == IF vt = "Electric" THEN "electricity price" ELSE "fuel price"

\* `Current ${priceLabel} ...` and `Past ${priceLabel} ...`
PriceMessage(which, label, what) ==
    CASE which = "Current" /\ label = "fuel price" /\ what = "is required"
           -> "Current fuel price is required"
      [] which = "Current" /\ label = "fuel price" /\ what = "cannot be negative"
           -> "Current fuel price cannot be negative"
      [] which = "Current" /\ label = "fuel price" /\ what = "seems unreasonably large"
           -> "Current fuel price seems unreasonably large"
      [] which = "Current" /\ label = "electricity price" /\ what = "is required"
           -> "Current electricity price is required"
      [] which = "Current" /\ label = "electricity price" /\ what = "cannot be negative"
           -> "Current electricity price cannot be negative"
      [] which = "Current" /\ label = "electricity price" /\ what = "seems unreasonably large"
           -> "Current electricity price seems unreasonably large"
      [] which = "Past" /\ label = "fuel price" /\ what = "is required"
           -> "Past fuel price is required"
      [] which = "Past" /\ label = "fuel price" /\ what = "cannot be negative"
           -> "Past fuel price cannot be negative"
      [] which = "Past" /\ label = "fuel price" /\ what = "seems unreasonably large"
           -> "Past fuel price seems unreasonably large"
      [] which = "Past" /\ label = "electricity price" /\ what = "is required"
           -> "Past electricity price is required"
      [] which = "Past" /\ label = "electricity price" /\ what = "cannot be negative"
           -> "Past electricity price cannot be negative"
      [] which = "Past" /\ label = "electricity price" /\ what = "seems unreasonably large"
           -> "Past electricity price seems unreasonably large"

\* One field's rule chain: required, else lower limit, else upper limit.
distanceErrs(d) ==
    IF d = Unset THEN <<"Annual distance is required">>
    ELSE IF d[1] < 0 THEN <<"Distance cannot be negative">>
    ELSE IF d[1] > Dec(1000000, 0) THEN <<"Distance seems unreasonably large">>
    ELSE <<>>

\* Faulty variant of efficiencyErrs: the lower limit is inclusive, as it is
\* for the other fields.
efficiencyErrsZeroOk(e) ==
    IF e = Unset THEN <<"Efficiency is required">>
    ELSE IF e[1] < 0 THEN <<"Efficiency must be greater than 0">>
    ELSE IF e[1] > Dec(1000, 0) THEN <<"Efficiency seems unreasonably large">>
    ELSE <<>>

efficiencyErrs(e) ==
    IF e = Unset THEN <<"Efficiency is required">>
    ELSE IF e[1] <= 0 THEN <<"Efficiency must be greater than 0">>
    ELSE IF e[1] > Dec(1000, 0) THEN <<"Efficiency seems unreasonably large">>
    ELSE <<>>

\* Faulty variant of priceErrs: the lower limit is not checked.
priceErrsNegativeOk(which, label, p) ==
    IF p = Unset THEN <<PriceMessage(which, label, "is required")>>
    ELSE IF p[1] > Dec(10000, 0)
    THEN <<PriceMessage(which, label, "seems unreasonably large")>>
    ELSE <<>>

priceErrs(which, label, p) ==
    IF p = Unset THEN <<PriceMessage(which, label, "is required")>>
    ELSE IF p[1] < 0 THEN <<PriceMessage(which, label, "cannot be negative")>>
    ELSE IF p[1] > Dec(10000, 0)
    THEN <<PriceMessage(which, label, "seems unreasonably large")>>
    ELSE <<>>

\* Faulty variant of validateInputs: the efficiency rules are checked before
\* the distance rules.
validateInputsSwapped(vt, d, e, c, p) ==
    efficiencyErrs(e) \o distanceErrs(d)
        \o priceErrs("Current", priceLabel(vt), c)
        \o priceErrs("Past", priceLabel(vt), p)

\* errs of validateInputs for the given field values
validateInputs(vt, d, e, c, p) ==
    distanceErrs(d) \o efficiencyErrs(e)
        \o priceErrs("Current", priceLabel(vt), c)
        \o priceErrs("Past", priceLabel(vt), p)

-----------------------------------------------------------------------------
(* handleCalculate and savings                                             *)

NoBreakdown == <<>>

\* Faulty variant of Breakdown: the stored fields are rounded to whole
\* units, as the chart values are.
BreakdownRounded(d, eff, costPerUnit, pastCostPerUnit) ==
    LET consumed == MathRound(RDiv100(RMul(d, eff)))
        previousEstimatedCost == MathRound(RMul(consumed, pastCostPerUnit))
        newFuelCost == MathRound(RMul(consumed, costPerUnit))
        newTaxes == MathRound(RMul(d, FromHundredths(Dec(6, 95))))
        newTotalCost == RAdd(newFuelCost, newTaxes)
    IN  [consumed |-> consumed,
         previousEstimatedCost |-> previousEstimatedCost,
         newFuelCost |-> newFuelCost,
         newTaxes |-> newTaxes,
         newTotalCost |-> newTotalCost]

\* the object handed to setComputedBreakdown, for the numbers d, eff,
\* costPerUnit and pastCostPerUnit
Breakdown(d, eff, costPerUnit, pastCostPerUnit) ==
    LET consumed == RDiv100(RMul(d, eff))
        previousEstimatedCost == RMul(consumed, pastCostPerUnit)
        newFuelCost == RMul(consumed, costPerUnit)
        newTaxes == RMul(d, roadTaxPerKm)
        newTotalCost == RAdd(newFuelCost, newTaxes)
    IN  [consumed |-> consumed,
         previousEstimatedCost |-> previousEstimatedCost,
         newFuelCost |-> newFuelCost,
         newTaxes |-> newTaxes,
         newTotalCost |-> newTotalCost]

\* useMemo savings: <<>> is null
savingsOf(breakdown) ==
    IF breakdown = NoBreakdown THEN <<>>
    ELSE <<RSub(breakdown[1].previousEstimatedCost, breakdown[1].newTotalCost)>>

savings == savingsOf(computedBreakdown)

\* Faulty variant of savingsClass: a difference of exactly 0 is styled as an
\* extra cost.
savingsClassStrict(s) ==
    IF s # <<>>
    THEN (IF RGe(s[1], Zero) /\ s[1] # Zero THEN "text-green-600" ELSE "text-red-600")
    ELSE ""

\* the class of the savings figure
savingsClass(s) ==
    IF s # <<>> THEN (IF RGe(s[1], Zero) THEN "text-green-600" ELSE "text-red-600")
    ELSE ""

-----------------------------------------------------------------------------
(* The three chart datasets (useMemo)                                      *)

\* typeof field === 'number' ? field : 0
NumOr0(field) == IF field # Unset THEN NumberOf(field) ELSE Zero

\* maxDistance, in hundredths of a km
maxDistanceOf(d) == IF d # Unset THEN 2 * d[1] ELSE 0

\* Faulty variant of stepOf: the step is rounded to the nearest integer.
stepOfRounded(maxDistance) == (maxDistance + 10 * 100) \div (20 * 100)

\* Faulty variant of stepOf: the step is rounded down.
stepOfFloor(maxDistance) == maxDistance \div (20 * 100)

\* Math.ceil(maxDistance / 20), in km (an integer)
stepOf(maxDistance) == -((-maxDistance) \div (20 * 100))

\* for (let d = 0; d <= maxDistance; d += step) with a step of 0 never ends
LoopDiverges(maxDistance, step) == maxDistance >= 0 /\ step <= 0

\* the values of d (km) the loop body runs for, in the order it runs
RECURSIVE LoopFrom(_, _, _)
LoopFrom(d, maxDistance, step) ==
    IF d * 100 > maxDistance THEN <<>>
    ELSE <<d>> \o LoopFrom(d + step, maxDistance, step)

sampleDistances(maxDistance) ==
    IF LoopDiverges(maxDistance, stepOf(maxDistance)) THEN <<>>
    ELSE LoopFrom(0, maxDistance, stepOf(maxDistance))

\* Faulty variant of newSystemCostAt: the road tax is left out.
newSystemCostAtNoTax(d, eff, price) ==
    RMul(RDiv100(RMul(FromInt(d), eff)), price)

\* d * 6.95 + ((d * eff) / 100) * price
newSystemCostAt(d, eff, price) ==
    RAdd(RMul(FromInt(d), roadTaxPerKm),
         RMul(RDiv100(RMul(FromInt(d), eff)), price))

\* ((d * eff) / 100) * price
oldSystemCostAt(d, eff, price) == RMul(RDiv100(RMul(FromInt(d), eff)), price)

\* Faulty variant of graphPoint: the two prices are exchanged.
graphPointSwapped(d, e, c, p) ==
    [distance |-> d,
     oldSystem |-> MathRound(oldSystemCostAt(d, NumOr0(e), NumOr0(c))),
     newSystem |-> MathRound(newSystemCostAt(d, NumOr0(e), NumOr0(p)))]

graphPoint(d, e, c, p) ==
    [distance |-> d,
     oldSystem |-> MathRound(oldSystemCostAt(d, NumOr0(e), NumOr0(p))),
     newSystem |-> MathRound(newSystemCostAt(d, NumOr0(e), NumOr0(c)))]

\* Variant of graphDataOf that lets a distance of 0 through and yields the
\* single point at distance 0 for it.
graphDataOfZeroPoint(breakdown, d, e, c, p) ==
    IF breakdown = NoBreakdown \/ d = Unset \/ Falsy(e) \/ Falsy(c) \/ Falsy(p)
    THEN <<>>
    ELSE IF d[1] = 0 THEN <<graphPoint(0, e, c, p)>>
    ELSE LET ds == sampleDistances(maxDistanceOf(d))
         IN  [i \in 1 .. Len(ds) |-> graphPoint(ds[i], e, c, p)]

graphDataOf(breakdown, d, e, c, p) ==
    IF breakdown = NoBreakdown \/ Falsy(d) \/ Falsy(e) \/ Falsy(c) \/ Falsy(p)
    THEN <<>>
    ELSE LET ds == sampleDistances(maxDistanceOf(d))
         IN  [i \in 1 .. Len(ds) |-> graphPoint(ds[i], e, c, p)]

otherVehicleType(vt) == IF vt = "Electric" THEN "Petrol/Diesel" ELSE "Electric"

\* Faulty variant of vehiclePoint: the other category's series are drawn
\* from the live efficiency and prices as well.
vehiclePointLive(vt, d, e, c, p) ==
    LET currentNew == MathRound(newSystemCostAt(d, NumOr0(e), NumOr0(c)))
        currentOld == MathRound(oldSystemCostAt(d, NumOr0(e), NumOr0(p)))
    IN  [distance |-> d,
         electricNew |-> currentNew,
         electricOld |-> currentOld,
         petrolDieselNew |-> currentNew,
         petrolDieselOld |-> currentOld]

\* The four series are keyed by vehicle type and system, whichever type is
\* the selected one.
vehiclePoint(vt, d, e, c, p) ==
    LET other == otherVehicleType(vt)
        currentNew == MathRound(newSystemCostAt(d, NumOr0(e), NumOr0(c)))
        currentOld == MathRound(oldSystemCostAt(d, NumOr0(e), NumOr0(p)))
        otherNew == MathRound(newSystemCostAt(d, NumberOf(defaultEfficiency(other)),
                                              NumberOf(defaultCurrentPrice(other))))
        otherOld == MathRound(oldSystemCostAt(d, NumberOf(defaultEfficiency(other)),
                                              NumberOf(defaultPastPrice(other))))
    IN  [distance |-> d,
         electricNew |-> IF vt = "Electric" THEN currentNew ELSE otherNew,
         electricOld |-> IF vt = "Electric" THEN currentOld ELSE otherOld,
         petrolDieselNew |-> IF vt = "Electric" THEN otherNew ELSE currentNew,
         petrolDieselOld |-> IF vt = "Electric" THEN otherOld ELSE currentOld]

\* Faulty variant of vehicleComparisonDataOf: the selected category's
\* series are read from the stored breakdown, not from the fields.
vehicleComparisonDataOfStored(breakdown, vt, d, e, c, p) ==
    IF breakdown = NoBreakdown \/ Falsy(d)
    THEN <<>>
    ELSE LET ds == sampleDistances(maxDistanceOf(d))
             stored == [electricNew |-> MathRound(breakdown[1].newTotalCost),
                        electricOld |->
                            MathRound(breakdown[1].previousEstimatedCost),
                        petrolDieselNew |-> MathRound(breakdown[1].newTotalCost),
                        petrolDieselOld |->
                            MathRound(breakdown[1].previousEstimatedCost)]
         IN  [i \in 1 .. Len(ds) |->
                  [f \in DOMAIN vehiclePoint(vt, ds[i], e, c, p) |->
                       IF f = "distance" THEN ds[i] ELSE stored[f]]]

vehicleComparisonDataOf(breakdown, vt, d, e, c, p) ==
    IF breakdown = NoBreakdown \/ Falsy(d)
    THEN <<>>
    ELSE LET ds == sampleDistances(maxDistanceOf(d))
         IN  [i \in 1 .. Len(ds) |-> vehiclePoint(vt, ds[i], e, c, p)]

One == FromInt(1)

\* Faulty variant of lessEfficientValue: the efficiency is lowered by one.
lessEfficientValueLowered(e) == RSub(NumOr0(e), One)

lessEfficientValue(e) == RAdd(NumOr0(e), One)

\* Faulty variant of moreEfficientValue: the efficiency is lowered by one
\* without the floor at 0.
moreEfficientValueUnclamped(e) == RSub(NumOr0(e), One)

moreEfficientValue(e) == RMax(Zero, RSub(NumOr0(e), One))

efficiencyPoint(d, e, c, p) ==
    [distance |-> d,
     oldSystem |-> MathRound(oldSystemCostAt(d, NumOr0(e), NumOr0(p))),
     base |-> MathRound(newSystemCostAt(d, NumOr0(e), NumOr0(c))),
     lessEfficient |-> MathRound(newSystemCostAt(d, lessEfficientValue(e), NumOr0(c))),
     moreEfficient |-> MathRound(newSystemCostAt(d, moreEfficientValue(e), NumOr0(c)))]

efficiencyComparisonDataOf(breakdown, d, e, c, p) ==
    IF breakdown = NoBreakdown \/ Falsy(d) \/ Falsy(e) \/ Falsy(c) \/ Falsy(p)
    THEN <<>>
    ELSE LET ds == sampleDistances(maxDistanceOf(d))
         IN  [i \in 1 .. Len(ds) |-> efficiencyPoint(ds[i], e, c, p)]

graphData ==
    graphDataOf(computedBreakdown, distance, efficiency, currentFuelPrice,
                pastFuelPrice)

vehicleComparisonData ==
    vehicleComparisonDataOf(computedBreakdown, vehicleType, distance, efficiency,
                            currentFuelPrice, pastFuelPrice)

efficiencyComparisonData ==
    efficiencyComparisonDataOf(computedBreakdown, distance, efficiency,
                               currentFuelPrice, pastFuelPrice)

-----------------------------------------------------------------------------
(* The component: state after construction and the event handlers          *)

\* Values typed into the number fields.
DistanceInputs ==
    {Unset, Num(Dec(0, 0) - 100), Num(0), Num(Dec(25, 0)), Num(Dec(15000, 0))}

EfficiencyInputs == {Unset, Num(0), Num(Dec(0, 50)), Num(Dec(6, 50))}

PriceInputs == {Unset, Num(Dec(0, 0) - 100), Num(0), Num(Dec(185, 0))}

\* Number of input events (field edits, category switches, chart toggles) in
\* one behaviour; Calculate and Reset are not counted.
MaxEvents == 3

Init ==
    /\ vehicleType = "Petrol/Diesel"
    /\ distance = Num(Dec(15000, 0))
    /\ efficiency = Num(Dec(6, 50))
    /\ currentFuelPrice = Num(Dec(185, 0))
    /\ pastFuelPrice = Num(Dec(300, 0))
    /\ errors = <<>>
    /\ isGraphExpanded = FALSE
    /\ isVehicleComparisonExpanded = FALSE
    /\ isEfficiencyComparisonExpanded = FALSE
    /\ computedBreakdown = NoBreakdown
    /\ lastOp = "init"
    /\ events = 0

\* distance input onChange
SetDistance(v) ==
    /\ events < MaxEvents
    /\ v # distance
    /\ distance' = v
    /\ lastOp' = "edit"
    /\ events' = events + 1
    /\ UNCHANGED <<vehicleType, efficiency, currentFuelPrice, pastFuelPrice,
                   errors, expanded, computedBreakdown>>

\* efficiency input onChange
SetEfficiency(v) ==
    /\ events < MaxEvents
    /\ v # efficiency
    /\ efficiency' = v
    /\ lastOp' = "edit"
    /\ events' = events + 1
    /\ UNCHANGED <<vehicleType, distance, currentFuelPrice, pastFuelPrice,
                   errors, expanded, computedBreakdown>>

\* current price input onChange
SetCurrentFuelPrice(v) ==
    /\ events < MaxEvents
    /\ v # currentFuelPrice
    /\ currentFuelPrice' = v
    /\ lastOp' = "edit"
    /\ events' = events + 1
    /\ UNCHANGED <<vehicleType, distance, efficiency, pastFuelPrice,
                   errors, expanded, computedBreakdown>>

\* past price input onChange
SetPastFuelPrice(v) ==
    /\ events < MaxEvents
    /\ v # pastFuelPrice
    /\ pastFuelPrice' = v
    /\ lastOp' = "edit"
    /\ events' = events + 1
    /\ UNCHANGED <<vehicleType, distance, efficiency, currentFuelPrice,
                   errors, expanded, computedBreakdown>>

\* Faulty variant of SelectedPresets: only the efficiency is prefilled, the
\* prices keep the values typed before.
SelectedPresetsEfficiencyOnly(vt) ==
    [vehicleType |-> vt,
     efficiency |-> defaultEfficiency(vt),
     currentFuelPrice |-> currentFuelPrice,
     pastFuelPrice |-> pastFuelPrice]

\* what the vehicle type select's onChange stores for the chosen type vt
SelectedPresets(vt) ==
    [vehicleType |-> vt,
     efficiency |-> defaultEfficiency(vt),
     currentFuelPrice |-> defaultCurrentPrice(vt),
     pastFuelPrice |-> defaultPastPrice(vt)]

\* Faulty variant of SetVehicleType: switching the type also discards the
\* breakdown computed for the previous type.
SetVehicleTypeClearing(vt) ==
    /\ events < MaxEvents
    /\ vt # vehicleType
    /\ vehicleType' = SelectedPresets(vt).vehicleType
    /\ efficiency' = SelectedPresets(vt).efficiency
    /\ currentFuelPrice' = SelectedPresets(vt).currentFuelPrice
    /\ pastFuelPrice' = SelectedPresets(vt).pastFuelPrice
    /\ computedBreakdown' = NoBreakdown
    /\ lastOp' = "setVehicleType"
    /\ events' = events + 1
    /\ UNCHANGED <<distance, errors, expanded>>

\* vehicle type select onChange
SetVehicleType(vt) ==
    /\ events < MaxEvents
    /\ vt # vehicleType
    /\ vehicleType' = SelectedPresets(vt).vehicleType
    /\ efficiency' = SelectedPresets(vt).efficiency
    /\ currentFuelPrice' = SelectedPresets(vt).currentFuelPrice
    /\ pastFuelPrice' = SelectedPresets(vt).pastFuelPrice
    /\ lastOp' = "setVehicleType"
    /\ events' = events + 1
    /\ UNCHANGED <<distance, errors, expanded, computedBreakdown>>

\* Faulty variant of CalculatedBreakdown: a failed validation discards the
\* earlier breakdown.
CalculatedBreakdownClearing(errs, old, d, e, c, p) ==
    IF errs # <<>> THEN NoBreakdown
    ELSE <<Breakdown(NumberOf(d), NumberOf(e), NumberOf(c), NumberOf(p))>>

\* Faulty variant of CalculatedBreakdown: the new amounts are added to
\* those of the breakdown already stored.
CalculatedBreakdownAccumulating(errs, old, d, e, c, p) ==
    LET new == Breakdown(NumberOf(d), NumberOf(e), NumberOf(c), NumberOf(p))
    IN  IF errs # <<>> THEN old
        ELSE IF old = NoBreakdown THEN <<new>>
        ELSE <<[f \in DOMAIN new |-> RAdd(old[1][f], new[f])]>>

\* what handleCalculate leaves in computedBreakdown, given the errs of
\* validateInputs
CalculatedBreakdown(errs, old, d, e, c, p) ==
    IF errs # <<>> THEN old
    ELSE <<Breakdown(NumberOf(d), NumberOf(e), NumberOf(c), NumberOf(p))>>

\* Faulty variant of HandleCalculate: the error list is stored only when it
\* is not empty, so the messages of a failed attempt outlive a success.
HandleCalculateKeepsErrors ==
    LET errs == validateInputs(vehicleType, distance, efficiency,
                               currentFuelPrice, pastFuelPrice)
    IN  /\ errors' = IF errs = <<>> THEN errors ELSE errs
        /\ computedBreakdown' =
               CalculatedBreakdown(errs, computedBreakdown, distance, efficiency,
                                   currentFuelPrice, pastFuelPrice)
        /\ lastOp' = "calculate"
        /\ UNCHANGED <<inputs, expanded, events>>

\* form onSubmit: handleCalculate, validateInputs included
HandleCalculate ==
    LET errs == validateInputs(vehicleType, distance, efficiency,
                               currentFuelPrice, pastFuelPrice)
    IN  /\ errors' = errs
        /\ computedBreakdown' =
               CalculatedBreakdown(errs, computedBreakdown, distance, efficiency,
                                   currentFuelPrice, pastFuelPrice)
        /\ lastOp' = "calculate"
        /\ UNCHANGED <<inputs, expanded, events>>

\* Faulty variant of ResetState: the breakdown is left in place.
ResetStateKeepsBreakdown ==
    [vehicleType |-> "Petrol/Diesel",
     distance |-> Num(Dec(15000, 0)),
     efficiency |-> defaultEfficiency("Petrol/Diesel"),
     currentFuelPrice |-> Num(Dec(185, 0)),
     pastFuelPrice |-> Num(Dec(300, 0)),
     errors |-> <<>>,
     computedBreakdown |-> computedBreakdown]

\* what the reset button's onClick stores
ResetState ==
    [vehicleType |-> "Petrol/Diesel",
     distance |-> Num(Dec(15000, 0)),
     efficiency |-> defaultEfficiency("Petrol/Diesel"),
     currentFuelPrice |-> Num(Dec(185, 0)),
     pastFuelPrice |-> Num(Dec(300, 0)),
     errors |-> <<>>,
     computedBreakdown |-> NoBreakdown]

\* Faulty variant of Reset: the three chart cards are collapsed as well.
ResetCollapsing ==
    /\ vehicleType' = ResetState.vehicleType
    /\ distance' = ResetState.distance
    /\ efficiency' = ResetState.efficiency
    /\ currentFuelPrice' = ResetState.currentFuelPrice
    /\ pastFuelPrice' = ResetState.pastFuelPrice
    /\ errors' = ResetState.errors
    /\ computedBreakdown' = ResetState.computedBreakdown
    /\ isGraphExpanded' = FALSE
    /\ isVehicleComparisonExpanded' = FALSE
    /\ isEfficiencyComparisonExpanded' = FALSE
    /\ lastOp' = "reset"
    /\ UNCHANGED events

\* reset button onClick
Reset ==
    /\ vehicleType' = ResetState.vehicleType
    /\ distance' = ResetState.distance
    /\ efficiency' = ResetState.efficiency
    /\ currentFuelPrice' = ResetState.currentFuelPrice
    /\ pastFuelPrice' = ResetState.pastFuelPrice
    /\ errors' = ResetState.errors
    /\ computedBreakdown' = ResetState.computedBreakdown
    /\ lastOp' = "reset"
    /\ UNCHANGED <<expanded, events>>

\* The header button of a chart card; the card is rendered only while a
\* breakdown exists and the card's dataset is not empty.
ToggleGraph ==
    /\ events < MaxEvents
    /\ computedBreakdown # NoBreakdown /\ DOMAIN graphData # {}
    /\ isGraphExpanded' = ~isGraphExpanded
    /\ lastOp' = "toggle"
    /\ events' = events + 1
    /\ UNCHANGED <<inputs, errors, computedBreakdown,
                   isVehicleComparisonExpanded, isEfficiencyComparisonExpanded>>

ToggleVehicleComparison ==
    /\ events < MaxEvents
    /\ computedBreakdown # NoBreakdown /\ DOMAIN vehicleComparisonData # {}
    /\ isVehicleComparisonExpanded' = ~isVehicleComparisonExpanded
    /\ lastOp' = "toggle"
    /\ events' = events + 1
    /\ UNCHANGED <<inputs, errors, computedBreakdown,
                   isGraphExpanded, isEfficiencyComparisonExpanded>>

ToggleEfficiencyComparison ==
    /\ events < MaxEvents
    /\ computedBreakdown # NoBreakdown /\ DOMAIN efficiencyComparisonData # {}
    /\ isEfficiencyComparisonExpanded' = ~isEfficiencyComparisonExpanded
    /\ lastOp' = "toggle"
    /\ events' = events + 1
    /\ UNCHANGED <<inputs, errors, computedBreakdown,
                   isGraphExpanded, isVehicleComparisonExpanded>>

Next ==
    \/ \E v \in DistanceInputs : SetDistance(v)
    \/ \E v \in EfficiencyInputs : SetEfficiency(v)
    \/ \E v \in PriceInputs : SetCurrentFuelPrice(v)
    \/ \E v \in PriceInputs : SetPastFuelPrice(v)
    \/ \E vt \in VehicleType : SetVehicleType(vt)
    \/ HandleCalculate
    \/ Reset
    \/ ToggleGraph
    \/ ToggleVehicleComparison
    \/ ToggleEfficiencyComparison

Spec == Init /\ [][Next]_vars

-----------------------------------------------------------------------------
(* validateInputs as a function of the fields: every combination of field  *)
(* values below can be typed into the form, and Calculate is applied to it. *)

ValidateDistances ==
    {Unset, Num(Dec(0, 0) - 100), Num(0), Num(Dec(15000, 0)),
     Num(Dec(1000000, 0)), Num(Dec(1000000, 1))}

ValidateEfficiencies ==
    {Unset, Num(Dec(0, 0) - 100), Num(0), Num(Dec(6, 50)), Num(Dec(1000, 0)),
     Num(Dec(1000, 1))}

ValidatePrices ==
    {Unset, Num(Dec(0, 0) - 100), Num(0), Num(Dec(185, 0)), Num(Dec(10000, 0)),
     Num(Dec(10000, 1))}

InitValidate ==
    /\ vehicleType \in VehicleType
    /\ distance \in ValidateDistances
    /\ efficiency \in ValidateEfficiencies
    /\ currentFuelPrice \in ValidatePrices
    /\ pastFuelPrice \in ValidatePrices
    /\ errors = <<>>
    /\ isGraphExpanded = FALSE
    /\ isVehicleComparisonExpanded = FALSE
    /\ isEfficiencyComparisonExpanded = FALSE
    /\ computedBreakdown = NoBreakdown
    /\ lastOp = "init"
    /\ events = 0

NextValidate == HandleCalculate

SpecValidate == InitValidate /\ [][NextValidate]_vars

-----------------------------------------------------------------------------
(* The chart datasets as a function of the fields: every combination of    *)
(* field values below can be typed into the form; Calculate stores the     *)
(* breakdown that lets the datasets through, Reset goes back to defaults.   *)

ChartDistances ==
    {Unset, Num(0), Num(Dec(0, 30)), Num(Dec(10, 0)), Num(Dec(25, 0)),
     Num(Dec(15000, 0))}

ChartEfficiencies ==
    {Unset, Num(Dec(0, 50)), Num(Dec(1, 0)), Num(Dec(6, 50)), Num(Dec(18, 0))}

ChartCurrentPrices == {Num(0), Num(Dec(25, 70)), Num(Dec(185, 0))}

ChartPastPrices == {Num(0), Num(Dec(25, 70)), Num(Dec(300, 0))}

InitCharts ==
    /\ vehicleType \in VehicleType
    /\ distance \in ChartDistances
    /\ efficiency \in ChartEfficiencies
    /\ currentFuelPrice \in ChartCurrentPrices
    /\ pastFuelPrice \in ChartPastPrices
    /\ errors = <<>>
    /\ isGraphExpanded = FALSE
    /\ isVehicleComparisonExpanded = FALSE
    /\ isEfficiencyComparisonExpanded = FALSE
    /\ computedBreakdown = NoBreakdown
    /\ lastOp = "init"
    /\ events = 0

NextCharts == HandleCalculate \/ Reset

SpecCharts == InitCharts /\ [][NextCharts]_vars

-----------------------------------------------------------------------------
(* The program from its initial state with a few values to type, small     *)
(* enough for the datasets of a step's two states to be compared.           *)

RecalcDistances == {Unset, Num(Dec(25, 0))}

RecalcEfficiencies == {Num(0), Num(Dec(0, 50))}

RecalcPrices == {Num(0)}

NextRecalc ==
    \/ \E v \in RecalcDistances : SetDistance(v)
    \/ \E v \in RecalcEfficiencies : SetEfficiency(v)
    \/ \E v \in RecalcPrices : SetCurrentFuelPrice(v)
    \/ \E vt \in VehicleType : SetVehicleType(vt)
    \/ HandleCalculate
    \/ Reset

SpecRecalc == Init /\ [][NextRecalc]_vars

-----------------------------------------------------------------------------
(* The program from its initial state with the distance field as the only  *)
(* field typed into: zero, negative, fractional and empty distances, before *)
(* and after a breakdown exists.                                            *)

LoopDistances ==
    {Unset, Num(Dec(0, 0) - 1500000), Num(Dec(0, 0) - 100), Num(0),
     Num(Dec(0, 30)), Num(Dec(7, 50)), Num(Dec(25, 0))}

NextLoop ==
    \/ \E v \in LoopDistances : SetDistance(v)
    \/ HandleCalculate
    \/ Reset

SpecLoop == Init /\ [][NextLoop]_vars

-----------------------------------------------------------------------------
(* Properties                                                              *)

\* The rules of the four fields, stated on the form's fields.
DistanceOk ==
    distance # Unset /\ distance[1] >= 0 /\ distance[1] <= Dec(1000000, 0)

EfficiencyOk ==
    efficiency # Unset /\ efficiency[1] > 0 /\ efficiency[1] <= Dec(1000, 0)

CurrentPriceOk ==
    /\ currentFuelPrice # Unset
    /\ currentFuelPrice[1] >= 0
    /\ currentFuelPrice[1] <= Dec(10000, 0)

PastPriceOk ==
    /\ pastFuelPrice # Unset
    /\ pastFuelPrice[1] >= 0
    /\ pastFuelPrice[1] <= Dec(10000, 0)

AllInRange == DistanceOk /\ EfficiencyOk /\ CurrentPriceOk /\ PastPriceOk

\* The fields are numbered in form order: 1 distance, 2 efficiency,
\* 3 current price, 4 past price.
ViolatingFields ==
    {f \in 1 .. 4 : \/ f = 1 /\ ~DistanceOk
                    \/ f = 2 /\ ~EfficiencyOk
                    \/ f = 3 /\ ~CurrentPriceOk
                    \/ f = 4 /\ ~PastPriceOk}

DistanceMessages ==
    {"Annual distance is required", "Distance cannot be negative",
     "Distance seems unreasonably large"}

EfficiencyMessages ==
    {"Efficiency is required", "Efficiency must be greater than 0",
     "Efficiency seems unreasonably large"}

PriceMessages(which) ==
    {PriceMessage(which, label, what) :
        label \in {"fuel price", "electricity price"},
        what \in {"is required", "cannot be negative", "seems unreasonably large"}}

\* the field a message is about, 0 for a text that is no message
FieldOf(m) ==
    IF m \in DistanceMessages THEN 1
    ELSE IF m \in EfficiencyMessages THEN 2
    ELSE IF m \in PriceMessages("Current") THEN 3
    ELSE IF m \in PriceMessages("Past") THEN 4
    ELSE 0

\* C1: after a Calculate the error list holds exactly one message for each
\* field that violates a rule and none for the others, in the order distance,
\* efficiency, current price, past price; distance -1 with efficiency 0 and
\* valid prices gives exactly two messages, the distance's first.
C1_OneMessagePerViolatingField ==
    lastOp = "calculate" =>
        /\ \A i, j \in DOMAIN errors :
               i < j => FieldOf(errors[i]) < FieldOf(errors[j])
        /\ {FieldOf(errors[i]) : i \in DOMAIN errors} = ViolatingFields
        /\ (/\ distance = Num(Dec(0, 0) - 100)
            /\ efficiency = Num(0)
            /\ CurrentPriceOk
            /\ PastPriceOk)
               => /\ Len(errors) = 2
                  /\ errors[1] = "Distance cannot be negative"
                  /\ errors[2] = "Efficiency must be greater than 0"

C1_Witness ==
    /\ lastOp = "calculate"
    /\ distance = Num(Dec(0, 0) - 100)
    /\ efficiency = Num(0)
    /\ CurrentPriceOk
    /\ PastPriceOk
    /\ Len(errors) = 2

\* C2: a Calculate leaves the error list empty, and computes a breakdown,
\* exactly when all four fields are set and within their limits; the upper
\* limits, price 0 and distance 0 pass, efficiency 0 and a hundredth above an
\* upper limit fail.
C2_AcceptsExactlyInRange ==
    lastOp = "calculate" =>
        /\ (errors = <<>>) <=> AllInRange
        /\ (computedBreakdown # NoBreakdown) <=> AllInRange

C2_Witness ==
    /\ lastOp = "calculate"
    /\ distance = Num(Dec(1000000, 0))
    /\ efficiency = Num(Dec(1000, 0))
    /\ currentFuelPrice = Num(Dec(10000, 0))
    /\ pastFuelPrice = Num(0)
    /\ errors = <<>>
    /\ computedBreakdown # NoBreakdown

\* b holds the five amounts of the distance d, efficiency e, current price c
\* and past price p, none of them rounded
BreakdownOf(b, d, e, c, p) ==
    /\ RMul(b.consumed, FromInt(100)) = RMul(d, e)
    /\ b.previousEstimatedCost = RMul(b.consumed, p)
    /\ b.newFuelCost = RMul(b.consumed, c)
    /\ b.newTaxes = RMul(d, FromHundredths(Dec(6, 95)))
    /\ b.newTotalCost = RAdd(b.newFuelCost, b.newTaxes)

\* C3: after a successful Calculate the stored breakdown is, unrounded,
\* consumed = distance * efficiency / 100, previousEstimatedCost = consumed *
\* pastPrice, newFuelCost = consumed * currentPrice, newTaxes = distance * 6.95
\* and newTotalCost = newFuelCost + newTaxes of the inputs.
C3_BreakdownFormulas ==
    lastOp = "calculate" /\ errors = <<>> =>
        /\ computedBreakdown # NoBreakdown
        /\ BreakdownOf(computedBreakdown[1], NumberOf(distance),
                       NumberOf(efficiency), NumberOf(currentFuelPrice),
                       NumberOf(pastFuelPrice))

\* a successful Calculate whose consumed amount is not a whole number
C3_Witness ==
    /\ lastOp = "calculate"
    /\ errors = <<>>
    /\ computedBreakdown # NoBreakdown
    /\ computedBreakdown[1].consumed.exp > 0
    /\ computedBreakdown[1].newTaxes.exp > 0

DefaultInputs ==
    /\ distance = Num(Dec(15000, 0))
    /\ efficiency = Num(Dec(6, 50))
    /\ currentFuelPrice = Num(Dec(185, 0))
    /\ pastFuelPrice = Num(Dec(300, 0))

\* C4: the initial inputs and the inputs after Reset are 15000, 6.5, 185 and
\* 300, and Calculate on them succeeds with consumed 975,
\* previousEstimatedCost 292500, newFuelCost 180375, newTaxes 104250,
\* newTotalCost 284625 and savings 7875.
C4_DefaultScenario ==
    /\ lastOp \in {"init", "reset"} => DefaultInputs
    /\ lastOp = "calculate" /\ DefaultInputs =>
           /\ errors = <<>>
           /\ computedBreakdown =
                  <<[consumed |-> FromInt(975),
                     previousEstimatedCost |-> FromInt(292500),
                     newFuelCost |-> FromInt(180375),
                     newTaxes |-> FromInt(104250),
                     newTotalCost |-> FromInt(284625)]>>
           /\ savings = <<FromInt(7875)>>

C4_Witness ==
    /\ lastOp = "calculate"
    /\ DefaultInputs
    /\ computedBreakdown # NoBreakdown
    /\ savings # <<>>

\* C5: a Calculate on inputs that violate a rule changes neither the stored
\* breakdown (absent or present) nor any of the five inputs; of the form's
\* state only the error list may change.
C5_FailedCalculateKeepsState ==
    [][lastOp' = "calculate" /\ ~AllInRange =>
           /\ computedBreakdown' = computedBreakdown
           /\ inputs' = inputs
           /\ expanded' = expanded]_vars

\* a failed Calculate with a breakdown of an earlier success in place
C5_Witness ==
    /\ lastOp = "calculate"
    /\ errors # <<>>
    /\ computedBreakdown # NoBreakdown

\* C6: the stored breakdown changes only when a successful Calculate replaces
\* it by the five amounts of the inputs, or when Reset clears it; a field
\* edit, a category switch, a failed Calculate and a chart toggle leave it as
\* it is.
C6_BreakdownChangesOnlyByCalculateOrReset ==
    [][computedBreakdown' # computedBreakdown =>
           \/ /\ lastOp' = "calculate"
              /\ AllInRange
              /\ Len(computedBreakdown') = 1
              /\ DOMAIN computedBreakdown'[1] =
                     {"consumed", "previousEstimatedCost", "newFuelCost",
                      "newTaxes", "newTotalCost"}
              /\ BreakdownOf(computedBreakdown'[1], NumberOf(distance),
                             NumberOf(efficiency), NumberOf(currentFuelPrice),
                             NumberOf(pastFuelPrice))
           \/ /\ lastOp' = "reset"
              /\ computedBreakdown' = NoBreakdown]_vars

\* a chart toggled after a failed Calculate, the earlier breakdown in place
C6_Witness ==
    /\ lastOp = "toggle"
    /\ errors # <<>>
    /\ computedBreakdown # NoBreakdown

\* C7: savings is absent exactly when the breakdown is; otherwise it is
\* previousEstimatedCost - newTotalCost, styled as a saving exactly when it is
\* >= 0 and as an extra cost exactly when it is < 0.
C7_SavingsAndItsSign ==
    /\ (savings = <<>>) <=> (computedBreakdown = NoBreakdown)
    /\ computedBreakdown # NoBreakdown =>
           /\ RAdd(savings[1], computedBreakdown[1].newTotalCost)
                  = computedBreakdown[1].previousEstimatedCost
           /\ (savingsClass(savings) = "text-green-600") <=> ~savings[1].neg
           /\ (savingsClass(savings) = "text-red-600") <=> savings[1].neg

\* an extra cost: the new total exceeds the previous estimate
C7_Witness ==
    /\ computedBreakdown # NoBreakdown
    /\ savings[1].neg
    /\ savingsClass(savings) = "text-red-600"

\* the presets of a category: efficiency, current price, past price
PresetsOf(vt) ==
    IF vt = "Electric"
    THEN <<Num(Dec(18, 0)), Num(Dec(25, 70)), Num(Dec(25, 70))>>
    ELSE <<Num(Dec(6, 50)), Num(Dec(185, 0)), Num(Dec(300, 0))>>

C9_ResetRestoresDefaults ==
    lastOp = "reset" =>
        /\ vehicleType = "Petrol/Diesel"
        /\ <<efficiency, currentFuelPrice, pastFuelPrice>>
               = PresetsOf("Petrol/Diesel")
        /\ errors = <<>>
        /\ computedBreakdown = NoBreakdown
        /\ graphData = <<>>
        /\ vehicleComparisonData = <<>>
        /\ efficiencyComparisonData = <<>>

\* a Reset made after a chart had been expanded, hence after a breakdown
\* and its datasets existed
C9_Witness ==
    /\ lastOp = "reset"
    /\ isVehicleComparisonExpanded
    /\ isGraphExpanded

SuccessfulCalculateAtZero ==
    lastOp = "calculate" /\ errors = <<>> /\ distance = Num(0)

SinglePointAtZero(data) == Len(data) = 1 /\ data[1].distance = 0

\* C10 as stated: after a successful Calculate with distance 0 each chart
\* dataset consists of exactly one point, at distance 0.
C10_SinglePointAtZero ==
    SuccessfulCalculateAtZero =>
        /\ SinglePointAtZero(graphData)
        /\ SinglePointAtZero(vehicleComparisonData)
        /\ SinglePointAtZero(efficiencyComparisonData)

\* C10, amended: after a successful Calculate with distance 0 each of the
\* three chart datasets is empty: a distance of 0 is falsy, so no generator
\* enters its sampling loop.
C10_EmptyAtZero ==
    SuccessfulCalculateAtZero =>
        /\ graphData = <<>>
        /\ vehicleComparisonData = <<>>
        /\ efficiencyComparisonData = <<>>

C10_Witness ==
    /\ SuccessfulCalculateAtZero
    /\ computedBreakdown # NoBreakdown
    /\ computedBreakdown[1].newTotalCost = Zero

AllSetAndNonZero ==
    /\ ~Falsy(distance)
    /\ ~Falsy(efficiency)
    /\ ~Falsy(currentFuelPrice)
    /\ ~Falsy(pastFuelPrice)

NonEmpty(data) == DOMAIN data # {}

\* C11 as stated: each of the three chart datasets is non-empty only while a
\* breakdown exists and distance, efficiency, current price and past price
\* are all set and non-zero.
C11_DatasetsNeedBreakdownAndAllInputs ==
    /\ NonEmpty(graphData) => computedBreakdown # NoBreakdown /\ AllSetAndNonZero
    /\ NonEmpty(vehicleComparisonData) =>
           computedBreakdown # NoBreakdown /\ AllSetAndNonZero
    /\ NonEmpty(efficiencyComparisonData) =>
           computedBreakdown # NoBreakdown /\ AllSetAndNonZero

\* C13: a Calculate that directly follows a Calculate on the same valid
\* inputs leaves the breakdown, savings, the error list and the three chart
\* datasets as the first left them.
C13_CalculateIdempotent ==
    [][lastOp = "calculate" /\ lastOp' = "calculate" /\ AllInRange =>
           /\ computedBreakdown' = computedBreakdown
           /\ savings' = savings
           /\ errors' = errors
           /\ graphDataOf(computedBreakdown', distance', efficiency',
                          currentFuelPrice', pastFuelPrice') = graphData
           /\ vehicleComparisonDataOf(computedBreakdown', vehicleType',
                                      distance', efficiency', currentFuelPrice',
                                      pastFuelPrice') = vehicleComparisonData
           /\ efficiencyComparisonDataOf(computedBreakdown', distance',
                                         efficiency', currentFuelPrice',
                                         pastFuelPrice') =
                  efficiencyComparisonData]_vars

\* the state a first successful Calculate leaves, from which the second runs
C13_Witness ==
    /\ lastOp = "calculate"
    /\ AllInRange
    /\ errors = <<>>
    /\ computedBreakdown # NoBreakdown
    /\ NonEmpty(graphData)

SamplesCoverRange(data) ==
    NonEmpty(data) =>
        /\ data[1].distance = 0
        /\ data[Len(data)].distance * 100 = 2 * distance[1]

\* C14 as stated: a generated dataset's first sample is at distance 0 and its
\* last sample at 2 * D, D the annual distance.
C14_SamplesCoverRange ==
    /\ SamplesCoverRange(graphData)
    /\ SamplesCoverRange(vehicleComparisonData)
    /\ SamplesCoverRange(efficiencyComparisonData)

\* the sampled distances of a dataset, in order
DistancesOf(data) == [i \in DOMAIN data |-> data[i].distance]

\* C16 as stated: the three chart datasets have the same number of points
\* and the same sampled distance at each index.
C16_DatasetsAligned ==
    /\ DistancesOf(graphData) = DistancesOf(vehicleComparisonData)
    /\ DistancesOf(graphData) = DistancesOf(efficiencyComparisonData)

\* C20: after a Calculate the error list is the validator's result for the
\* inputs, in its order; after a successful one it is empty.
C20_ErrorsAreValidatorResult ==
    lastOp = "calculate" =>
        /\ errors = validateInputs(vehicleType, distance, efficiency,
                                   currentFuelPrice, pastFuelPrice)
        /\ AllInRange => errors = <<>>
        /\ {FieldOf(errors[i]) : i \in DOMAIN errors} = ViolatingFields

\* a successful Calculate made after two field edits, with a breakdown stored
C20_Witness ==
    /\ lastOp = "calculate"
    /\ errors = <<>>
    /\ AllInRange
    /\ events >= 2
    /\ computedBreakdown # NoBreakdown

\* round(d * 6.95 + (d * eff / 100) * price), d in km, eff and price numbers
RoundedNewCost(d, eff, price) ==
    MathRound(RAdd(RMul(FromInt(d), FromHundredths(695)),
                   RMul(RDiv100(RMul(FromInt(d), eff)), price)))

\* round((d * eff / 100) * price)
RoundedOldCost(d, eff, price) ==
    MathRound(RMul(RDiv100(RMul(FromInt(d), eff)), price))

\* C12: the 'more efficient' series is the new-system cost at efficiency
\* max(0, e - 1): for 0 < e < 1 it is round(d * 6.95), the road tax alone;
\* for e >= 1 it is the cost at e - 1.
C12_MoreEfficientUsesClampedEfficiency ==
    \A i \in DOMAIN efficiencyComparisonData :
        LET pt == efficiencyComparisonData[i]
        IN  IF efficiency[1] < 100
            THEN pt.moreEfficient =
                     MathRound(RMul(FromInt(pt.distance), FromHundredths(695)))
            ELSE pt.moreEfficient =
                     RoundedNewCost(pt.distance,
                                    FromHundredths(efficiency[1] - 100),
                                    NumberOf(currentFuelPrice))

\* a calculated chart for an efficiency of 0.5, sampled beyond distance 0
C12_Witness ==
    /\ lastOp = "calculate"
    /\ efficiency = Num(Dec(0, 50))
    /\ currentFuelPrice = Num(Dec(185, 0))
    /\ Len(efficiencyComparisonData) = 21

\* ceil(2 * D / 20) in km, D the distance field in hundredths
StepFor(d) == (2 * d[1] + 1999) \div 2000

SampledAtMultiples(data) ==
    /\ \A i \in DOMAIN data : data[i].distance = (i - 1) * StepFor(distance)
    /\ \A i \in DOMAIN data : i > 1 => data[i].distance > data[i - 1].distance
    /\ \A i \in DOMAIN data : data[i].distance * 100 <= 2 * distance[1]
    /\ Len(data) <= 21

\* C15: the sampled distances of each dataset are 0, s, 2s, ... with
\* s = ceil(2 * D / 20): strictly ascending, none above 2 * D, at most 21.
C15_SamplesAtMultiplesOfStep ==
    /\ SampledAtMultiples(graphData)
    /\ SampledAtMultiples(vehicleComparisonData)
    /\ SampledAtMultiples(efficiencyComparisonData)

\* D = 25: the step 2.5 is rounded up to 3 and 17 points are sampled
C15_Witness ==
    /\ lastOp = "calculate"
    /\ distance = Num(Dec(25, 0))
    /\ Len(graphData) = 17
    /\ Len(vehicleComparisonData) = 17
    /\ Len(efficiencyComparisonData) = 17

\* C18: the series of the category that is not selected are
\* round(d * 6.95 + (d * effP / 100) * curP) and round((d * effP / 100) * pastP)
\* with that category's presets (18, 25.7, 25.7 for Electric; 6.5, 185, 300
\* for Petrol/Diesel), whatever the live efficiency and prices are.
C18_OtherCategoryFromPresets ==
    \A i \in DOMAIN vehicleComparisonData :
        LET pt == vehicleComparisonData[i]
        IN  IF vehicleType = "Electric"
            THEN /\ pt.petrolDieselNew =
                        RoundedNewCost(pt.distance, FromHundredths(650),
                                       FromHundredths(18500))
                 /\ pt.petrolDieselOld =
                        RoundedOldCost(pt.distance, FromHundredths(650),
                                       FromHundredths(30000))
            ELSE /\ pt.electricNew =
                        RoundedNewCost(pt.distance, FromHundredths(1800),
                                       FromHundredths(2570))
                 /\ pt.electricOld =
                        RoundedOldCost(pt.distance, FromHundredths(1800),
                                       FromHundredths(2570))

\* a calculated chart whose live efficiency and prices are not the presets
\* of either category
C18_Witness ==
    /\ lastOp = "calculate"
    /\ Len(vehicleComparisonData) = 21
    /\ efficiency = Num(Dec(1, 0))
    /\ currentFuelPrice = Num(0)
    /\ pastFuelPrice = Num(Dec(300, 0))

\* C19: the old-vs-new dataset holds round((d * eff / 100) * pastPrice) and
\* round(d * 6.95 + (d * eff / 100) * currentPrice) of the live inputs at each
\* sampled distance d, and 0 for both at d = 0.
C19_OldVsNewFromLiveInputs ==
    /\ \A i \in DOMAIN graphData :
           LET pt == graphData[i]
           IN  /\ pt.oldSystem = RoundedOldCost(pt.distance, NumberOf(efficiency),
                                                NumberOf(pastFuelPrice))
               /\ pt.newSystem = RoundedNewCost(pt.distance, NumberOf(efficiency),
                                                NumberOf(currentFuelPrice))
    /\ NonEmpty(graphData) =>
           /\ graphData[1].distance = 0
           /\ graphData[1].oldSystem = Zero
           /\ graphData[1].newSystem = Zero

\* a calculated chart with different current and past prices
C19_Witness ==
    /\ lastOp = "calculate"
    /\ Len(graphData) = 21
    /\ currentFuelPrice = Num(Dec(185, 0))
    /\ pastFuelPrice = Num(Dec(300, 0))
    /\ graphData[21].oldSystem # graphData[21].newSystem

\* the three datasets of the next state
DatasetsUnchanged ==
    /\ graphDataOf(computedBreakdown', distance', efficiency',
                   currentFuelPrice', pastFuelPrice') = graphData
    /\ vehicleComparisonDataOf(computedBreakdown', vehicleType', distance',
                               efficiency', currentFuelPrice', pastFuelPrice') =
           vehicleComparisonData
    /\ efficiencyComparisonDataOf(computedBreakdown', distance', efficiency',
                                  currentFuelPrice', pastFuelPrice') =
           efficiencyComparisonData

\* C17 as stated: once a Calculate has succeeded, a field edit or a category
\* switch leaves the three chart datasets as they were.
C17_EditsLeaveDatasets ==
    [][computedBreakdown # NoBreakdown /\ lastOp' \in {"edit", "setVehicleType"}
           => DatasetsUnchanged]_vars

\* C17 as the code has it: the datasets follow the fields and the presence
\* of a breakdown only, so a step that changes neither (a Calculate after the
\* edits included, whatever amounts it stores) leaves all three as they were.
C17_DatasetsFollowFields ==
    [][(/\ inputs' = inputs
        /\ (computedBreakdown' = NoBreakdown) <=> (computedBreakdown = NoBreakdown))
           => DatasetsUnchanged]_vars

\* a field edited after a successful Calculate: the stored breakdown is not
\* that of the fields any more, and the charts are drawn
C17_Witness ==
    /\ lastOp = "edit"
    /\ computedBreakdown # NoBreakdown
    /\ AllInRange
    /\ ~BreakdownOf(computedBreakdown[1], NumberOf(distance),
                    NumberOf(efficiency), NumberOf(currentFuelPrice),
                    NumberOf(pastFuelPrice))
    /\ NonEmpty(graphData)
    /\ NonEmpty(vehicleComparisonData)
    /\ NonEmpty(efficiencyComparisonData)

\* C21 as stated: while a chart dataset is not empty, the four numeric
\* inputs satisfy the validation rules.
C21_DatasetsOnlyFromValidInputs ==
    /\ NonEmpty(graphData) => AllInRange
    /\ NonEmpty(vehicleComparisonData) => AllInRange
    /\ NonEmpty(efficiencyComparisonData) => AllInRange

\* 10,000,000 * 10,000 + 1,000,000 * 6.95
NewTotalCostLimit ==
    RAdd(RMul(FromInt(10000000), FromInt(10000)),
         RMul(FromInt(1000000), FromHundredths(695)))

\* C24: a stored breakdown has no negative amount, its total is at least its
\* fuel cost and at least its road tax, and no amount exceeds
\* 10,000,000 * 10,000 + 1,000,000 * 6.95.
C24_BreakdownNonNegativeAndBounded ==
    computedBreakdown # NoBreakdown =>
        LET b == computedBreakdown[1]
        IN  /\ \A f \in {"consumed", "previousEstimatedCost", "newFuelCost",
                         "newTaxes", "newTotalCost"} :
                   RGe(b[f], Zero) /\ RGe(NewTotalCostLimit, b[f])
            /\ RGe(b.newTotalCost, b.newFuelCost)
            /\ RGe(b.newTotalCost, b.newTaxes)

\* the breakdown of the largest accepted inputs: the limit is attained
C24_Witness ==
    /\ lastOp = "calculate"
    /\ computedBreakdown # NoBreakdown
    /\ computedBreakdown[1].newTotalCost = NewTotalCostLimit
    /\ computedBreakdown[1].consumed = FromInt(10000000)

\* C26: Reset leaves the category, the four numeric inputs, the error list
\* and the breakdown as they are initially (Petrol/Diesel, 15000, 6.5, 185,
\* 300, no message, no breakdown) and the three expansion flags as they were;
\* a Reset of a state that a Reset left changes nothing.
C26_ResetIsInitialStateKeepingFlags ==
    [][lastOp' = "reset" =>
           /\ vehicleType' = "Petrol/Diesel"
           /\ distance' = Num(Dec(15000, 0))
           /\ efficiency' = Num(Dec(6, 50))
           /\ currentFuelPrice' = Num(Dec(185, 0))
           /\ pastFuelPrice' = Num(Dec(300, 0))
           /\ errors' = <<>>
           /\ computedBreakdown' = NoBreakdown
           /\ isGraphExpanded' = isGraphExpanded
           /\ isVehicleComparisonExpanded' = isVehicleComparisonExpanded
           /\ isEfficiencyComparisonExpanded' = isEfficiencyComparisonExpanded
           /\ lastOp = "reset" => UNCHANGED vars]_vars

\* a Reset made with the third chart card expanded and fields edited
C26_Witness ==
    /\ lastOp = "reset"
    /\ isEfficiencyComparisonExpanded
    /\ ~isGraphExpanded
    /\ events >= 2

\* a generator gets past its guard: the weakest of the three guards, that of
\* the category comparison
LoopReached == computedBreakdown # NoBreakdown /\ ~Falsy(distance)

C23_PointAtDistanceIsBreakdown ==
    lastOp = "calculate" /\ errors = <<>> =>
        \A i \in DOMAIN graphData :
            graphData[i].distance * 100 = distance[1] =>
                /\ graphData[i].oldSystem =
                       MathRound(computedBreakdown[1].previousEstimatedCost)
                /\ graphData[i].newSystem =
                       MathRound(computedBreakdown[1].newTotalCost)

\* Calculate at 15000 km: the step is 1500 and the eleventh point is at 15000
C23_Witness ==
    /\ lastOp = "calculate"
    /\ errors = <<>>
    /\ distance = Num(Dec(15000, 0))
    /\ efficiency = Num(Dec(0, 50))
    /\ Len(graphData) = 21
    /\ graphData[11].distance = 15000

\* C25: for inputs inside the validation limits, at every sampled distance
\* of the efficiency-sensitivity dataset
\* round(d * 6.95) <= moreEfficient <= base <= lessEfficient.
C25_SensitivityOrdered ==
    AllInRange =>
        \A i \in DOMAIN efficiencyComparisonData :
            LET pt == efficiencyComparisonData[i]
            IN  /\ RGe(pt.base, pt.moreEfficient)
                /\ RGe(pt.lessEfficient, pt.base)
                /\ RGe(pt.moreEfficient,
                       MathRound(RMul(FromInt(pt.distance), FromHundredths(695))))

\* a calculated dataset whose three series differ at the last point
C25_Witness ==
    /\ lastOp = "calculate"
    /\ AllInRange
    /\ Len(efficiencyComparisonData) = 21
    /\ efficiencyComparisonData[21].moreEfficient #
           efficiencyComparisonData[21].base
    /\ efficiencyComparisonData[21].lessEfficient #
           efficiencyComparisonData[21].base

====
